---- MODULE Spec2Model ----
(***************************************************************************)
(* Model of the transcription-cli tool (src/main.rs): the course           *)
(* scaffolder create_course and the link validation pass verify_links.     *)
(*                                                                         *)
(* Strings are sequences of atoms.  The atoms ":" and "/" are the single   *)
(* characters; "trane", "transcription", "a", "b" stand for runs of        *)
(* letters that are never split by the operations modelled here.           *)
(***************************************************************************)
EXTENDS Integers, Sequences, FiniteSets, TLC

\* ------------------------------------------------------------------ bounds
MaxPrefixes == 2
MaxSegments == 3
MaxFsSegments == 2
MaxCalls == 3
MaxCourses == 2
MaxPassages == 2

\* --------------------------------------------------------- string helpers
NsSeparator == <<":", ":">>
NsPrefix == <<"trane", ":", ":", "transcription", ":", ":">>
PathSeparator == <<"/">>

\* str::starts_with
StartsWith(s, p) == Len(s) >= Len(p) /\ SubSeq(s, 1, Len(p)) = p

\* str::trim_start_matches: removes the pattern repeatedly while it matches.
RECURSIVE TrimStartMatches(_, _)
TrimStartMatchesNone(s, p) == s
TrimStartMatches(s, p) ==
    IF p # <<>> /\ StartsWith(s, p)
    THEN TrimStartMatches(SubSeq(s, Len(p) + 1, Len(s)), p)
    ELSE s

\* Index of the first occurrence of pattern p in s at or after i, 0 if none.
RECURSIVE FindFrom(_, _, _)
FindFrom(s, p, i) ==
    IF i + Len(p) - 1 > Len(s) THEN 0
    ELSE IF SubSeq(s, i, i + Len(p) - 1) = p THEN i
    ELSE FindFrom(s, p, i + 1)

\* str::split(pattern).collect::<Vec<_>>(): non-overlapping matches, left to
\* right; empty pieces are kept.
RECURSIVE Split(_, _)
SplitOnce(s, p) ==
    LET i == FindFrom(s, p, 1)
    IN  IF i = 0 THEN <<s>>
        ELSE <<SubSeq(s, 1, i - 1), SubSeq(s, i + Len(p), Len(s))>>
Split(s, p) ==
    LET i == FindFrom(s, p, 1)
    IN  IF i = 0 THEN <<s>>
        ELSE <<SubSeq(s, 1, i - 1)>> \o Split(SubSeq(s, i + Len(p), Len(s)), p)

\* [&str]::join(separator)
RECURSIVE Join(_, _)
Join(parts, sep) ==
    IF parts = <<>> THEN <<>>
    ELSE IF Len(parts) = 1 THEN parts[1]
    ELSE parts[1] \o sep \o Join(Tail(parts), sep)

\* ------------------------------------------------- identifier normalizer
\* The relative path string built at lines 27-37.
PathString(id) ==
    IF StartsWith(id, NsPrefix)
    THEN Join(Split(TrimStartMatches(id, NsPrefix), NsSeparator), PathSeparator)
    ELSE Join(Split(id, NsSeparator), PathSeparator)

\* The course id built at lines 43-47.
CourseIdAlwaysPrefixed(id) == NsPrefix \o id
CourseId(id) ==
    IF StartsWith(id, NsPrefix) THEN id ELSE NsPrefix \o id

\* ------------------------------------------------------------ input sets
RECURSIVE Repeat(_, _)
Repeat(s, n) == IF n = 0 THEN <<>> ELSE s \o Repeat(s, n - 1)

SeqsUpTo(names, n) == UNION {[1..k -> names] : k \in 0..n}

IdsOf(names, n) ==
    {Repeat(NsPrefix, j) \o Join(segs, NsSeparator) :
        j \in 0..MaxPrefixes, segs \in SeqsUpTo(names, n)}

NormSegNames == {<<"a">>, <<>>, <<":">>, <<"trane">>, <<"transcription">>}
NormIds == IdsOf(NormSegNames, MaxSegments)

\* The identifiers given to create_course: up to MaxPrefixes prefixes before
\* a chain a, a::b, a::b::a, ... of up to MaxFsSegments segments.
FsSegChain(k) == [i \in 1..k |-> IF i % 2 = 1 THEN <<"a">> ELSE <<"b">>]
FsIds ==
    {Repeat(NsPrefix, j) \o Join(FsSegChain(k), NsSeparator) :
        j \in 0..MaxPrefixes, k \in 0..MaxFsSegments}

\* ------------------------------------------------------------ filesystem
\* A path is a sequence of components; a component is a string.
CurrentDir == << <<"cwd">> >>
CoursesRoot == CurrentDir \o << <<"courses">> >>

\* The components of a path string: repeated separators collapse.
Components(p) == SelectSeq(Split(p, PathSeparator), LAMBDA c : c # <<>>)

\* root.join(path): an absolute path replaces the root.
PathJoin(root, p) ==
    IF StartsWith(p, PathSeparator) THEN Components(p)
    ELSE root \o Components(p)

\* The target directory of lines 27-37.
Directory(id) == PathJoin(CoursesRoot, PathString(id))

\* fs::create_dir_all: the directory and every missing ancestor.
CreateDirLeafOnly(d, dir) == d \cup {dir}
CreateDirAll(d, dir) == d \cup {SubSeq(dir, 1, k) : k \in 1..Len(dir)}

\* fs::create_dir_all that fails on the way down: the ancestors of depth at
\* most m exist afterwards, the directory itself does not.
CreateDirPartial(d, dir, m) == d \cup {SubSeq(dir, 1, k) : k \in 1..m}

\* The manifest built at lines 48-63.
Manifest(course_id) ==
    [id |-> course_id,
     authors |-> <<"The Trane Project">>,
     metadata |-> [course_series |-> <<"trane_transcription">>],
     generator_config |->
        [kind |-> "Transcription",
         transcription_dependencies |-> <<>>,
         passage_directory |-> "",
         inlined_passages |-> <<>>,
         skip_singing_lessons |-> FALSE,
         skip_advanced_lessons |-> FALSE]]

\* The steps of create_course that can fail for reasons outside the program.
\* fs::write is File::create followed by write_all: it can fail before the
\* file exists (create_file) or after it was created empty (write_bytes).
Faults == {"none", "build", "mkdir", "serialize", "create_file", "write_bytes"}

\* The result of create_course: the first failing step, in code order.
OutcomeNoExistsCheck(d, id, fault) ==
    IF CoursesRoot \notin d THEN "MissingCoursesRoot"
    ELSE CASE fault = "none" -> "Ok"
           [] fault = "build" -> "ManifestBuildFailure"
           [] fault = "mkdir" -> "DirectoryCreateFailure"
           [] fault = "serialize" -> "SerializationFailure"
           [] fault \in {"create_file", "write_bytes"} -> "FileWriteFailure"
Outcome(d, id, fault) ==
    IF CoursesRoot \notin d THEN "MissingCoursesRoot"
    ELSE IF Directory(id) \in d THEN "CourseAlreadyExists"
    ELSE CASE fault = "none" -> "Ok"
           [] fault = "build" -> "ManifestBuildFailure"
           [] fault = "mkdir" -> "DirectoryCreateFailure"
           [] fault = "serialize" -> "SerializationFailure"
           [] fault \in {"create_file", "write_bytes"} -> "FileWriteFailure"

\* The directories on disk after create_course.
DirsAfterEager(d, id, fault, m) ==
    LET r == Outcome(d, id, fault)
    IN  IF r = "CourseAlreadyExists" THEN d
        ELSE IF r = "DirectoryCreateFailure"
             THEN CreateDirPartial(d, Directory(id), m)
             ELSE CreateDirAll(d, Directory(id))
DirsAfter(d, id, fault, m) ==
    LET r == Outcome(d, id, fault)
    IN  IF r \in {"MissingCoursesRoot", "CourseAlreadyExists",
                  "ManifestBuildFailure"} THEN d
        ELSE IF r = "DirectoryCreateFailure"
             THEN CreateDirPartial(d, Directory(id), m)
             ELSE CreateDirAll(d, Directory(id))

\* The course_manifest.json files on disk after create_course, by directory.
FilesAfter(f, d, id, fault) ==
    LET r == Outcome(d, id, fault)
    IN  IF r = "Ok"
        THEN (Directory(id) :> [complete |-> TRUE,
                                manifest |-> Manifest(CourseId(id))]) @@ f
        ELSE IF r = "FileWriteFailure" /\ fault = "write_bytes"
        THEN (Directory(id) :> [complete |-> FALSE,
                                manifest |-> Manifest(CourseId(id))]) @@ f
        ELSE f

VARIABLES
    dirs,        \* the directories that exist
    files,       \* directory -> its course_manifest.json
    lastId,      \* the raw identifier of the latest create_course call
    result,      \* its result
    succeeded,   \* the raw identifiers for which create_course returned Ok
    calls        \* the number of create_course calls so far

fsVars == <<dirs, files, lastId, result, succeeded, calls>>

VARIABLES
    nRaw,        \* the raw identifier given to the normalizer
    nIn,         \* the input of the next normalization pass
    nId,         \* the course id of the latest pass
    nPath,       \* the path string of the latest pass
    nPrev,       \* the outputs of the pass before
    nPass        \* the number of passes done

normVars == <<nRaw, nIn, nId, nPath, nPrev, nPass>>

VARIABLES
    library,        \* the courses of the loaded library, in iteration order
    vpc,            \* position of verify_links: start, loop, done, failed
    ci,             \* index of the course being processed
    pi,             \* index of the passage being processed
    invalid_links,  \* the counter of line 117
    output,         \* the lines printed so far
    checks          \* the calls of verify_youtube_link made so far

linkVars == <<library, vpc, ci, pi, invalid_links, output, checks>>

vars == <<fsVars, normVars, linkVars>>

BaseDirs == {<<>>, CurrentDir}

FsInit ==
    /\ dirs \in {BaseDirs, BaseDirs \cup {CoursesRoot}}
    /\ files = <<>>
    /\ lastId = <<>>
    /\ result = "none"
    /\ succeeded = {}
    /\ calls = 0

NormIdle ==
    /\ nRaw = <<>> /\ nIn = <<>> /\ nId = <<>> /\ nPath = <<>>
    /\ nPrev = [id |-> <<>>, path |-> <<>>]
    /\ nPass = 0

LinkIdle ==
    /\ library = <<>> /\ vpc = "idle" /\ ci = 1 /\ pi = 1
    /\ invalid_links = 0 /\ output = <<>> /\ checks = <<>>

FsIdle ==
    /\ dirs = BaseDirs /\ files = <<>> /\ lastId = <<>> /\ result = "none"
    /\ succeeded = {} /\ calls = 0

\* How far a failing fs::create_dir_all can get before it fails.
PartialDepths(d, id, fault) ==
    IF Outcome(d, id, fault) = "DirectoryCreateFailure"
    THEN 0..(Len(Directory(id)) - 1)
    ELSE {0}

\* create_course(id), lines 21-86.
CreateCourse(id, fault, m) ==
    /\ calls < MaxCalls
    /\ m \in PartialDepths(dirs, id, fault)
    /\ dirs' = DirsAfter(dirs, id, fault, m)
    /\ files' = FilesAfter(files, dirs, id, fault)
    /\ result' = Outcome(dirs, id, fault)
    /\ lastId' = id
    /\ succeeded' = IF Outcome(dirs, id, fault) = "Ok"
                    THEN succeeded \cup {id} ELSE succeeded
    /\ calls' = calls + 1
    /\ UNCHANGED <<normVars, linkVars>>

Init == FsInit /\ NormIdle /\ LinkIdle

Next ==
    \E id \in FsIds, fault \in Faults :
        \E m \in PartialDepths(dirs, id, fault) : CreateCourse(id, fault, m)

Spec == Init /\ [][Next]_vars

\* The normalizer on its own: a pass computes the course id and the path
\* string of its input, and the next pass is fed the course id.
NormInit ==
    /\ nRaw \in NormIds
    /\ nIn = nRaw
    /\ nId = <<>> /\ nPath = <<>>
    /\ nPrev = [id |-> <<>>, path |-> <<>>]
    /\ nPass = 0
    /\ FsIdle /\ LinkIdle

Normalize ==
    /\ nPass < 2
    /\ nId' = CourseId(nIn)
    /\ nPath' = PathString(nIn)
    /\ nPrev' = [id |-> nId, path |-> nPath]
    /\ nIn' = CourseId(nIn)
    /\ nPass' = nPass + 1
    /\ UNCHANGED <<nRaw, fsVars, linkVars>>

NormNext == Normalize

SpecNorm == NormInit /\ [][NormNext]_vars

\* ---------------------------------------------------------- verify_links
\* A passage is a Track asset with a short id and an optional external link.
Passages ==
    UNION {[1..n -> {"None", "YouTube"}] : n \in 0..MaxPassages}

Track(j, link) == [short_id |-> <<"asset", j>>, external_link |-> link]

GeneratorConfigs ==
    {[kind |-> "None", inlined_passages |-> <<>>],
     [kind |-> "Other", inlined_passages |-> <<>>]}
    \cup {[kind |-> "Transcription",
           inlined_passages |-> [j \in 1..Len(ps) |-> Track(j, ps[j])]] :
            ps \in Passages}

Libraries ==
    UNION {{[i \in 1..n |-> [id |-> <<"course", i>>, generator_config |-> g[i]]] :
                g \in [1..n -> GeneratorConfigs]} : n \in 0..MaxCourses}

\* What the remote service can answer to the request of line 100.
Responses == {"status200", "statusOther", "transport"}

\* verify_youtube_link, lines 97-107.
VerifyYoutubeLinkNoStatusCheck(response) ==
    IF response = "transport" THEN "Err" ELSE "Ok"
VerifyYoutubeLink(response) ==
    IF response = "status200" THEN "Ok" ELSE "Err"

InvalidLine(course_id, short_id) ==
    [kind |-> "invalid", course |-> course_id, asset |-> short_id]
AllValidLine == [kind |-> "all_valid", course |-> <<>>, asset |-> <<>>]

\* Lines 152-154.
SummaryAlways(invalid) == <<AllValidLine>>
Summary(invalid) == IF invalid = 0 THEN <<AllValidLine>> ELSE <<>>

LinkInit ==
    /\ library \in Libraries
    /\ vpc = "start"
    /\ ci = 1 /\ pi = 1
    /\ invalid_links = 0
    /\ output = <<>>
    /\ checks = <<>>
    /\ FsIdle /\ NormIdle

\* Line 113: Trane::new_local succeeds.
LoadLibrary ==
    /\ vpc = "start"
    /\ vpc' = "loop"
    /\ UNCHANGED <<library, ci, pi, invalid_links, output, checks, fsVars, normVars>>

\* Line 113: Trane::new_local fails and the error is returned.
LoadLibraryFails ==
    /\ vpc = "start"
    /\ vpc' = "failed"
    /\ UNCHANGED <<library, ci, pi, invalid_links, output, checks, fsVars, normVars>>

\* Lines 120-122: a course without generator config.
SkipNoConfig ==
    /\ vpc = "loop" /\ ci <= Len(library)
    /\ library[ci].generator_config.kind = "None"
    /\ ci' = ci + 1 /\ pi' = 1
    /\ UNCHANGED <<library, vpc, invalid_links, output, checks, fsVars, normVars>>

\* Line 124: the if let does not match another generator.
SkipOtherGenerator ==
    /\ vpc = "loop" /\ ci <= Len(library)
    /\ library[ci].generator_config.kind = "Other"
    /\ ci' = ci + 1 /\ pi' = 1
    /\ UNCHANGED <<library, vpc, invalid_links, output, checks, fsVars, normVars>>

\* Lines 125-147 for a passage with a link: one call of verify_youtube_link.
CheckPassage(response) ==
    /\ vpc = "loop" /\ ci <= Len(library)
    /\ library[ci].generator_config.kind = "Transcription"
    /\ pi <= Len(library[ci].generator_config.inlined_passages)
    /\ LET passage == library[ci].generator_config.inlined_passages[pi]
           valid == VerifyYoutubeLink(response)
       IN  /\ passage.external_link = "YouTube"
           /\ checks' = Append(checks, [course |-> library[ci].id,
                                        asset |-> passage.short_id,
                                        response |-> response])
           /\ IF valid = "Err"
              THEN /\ invalid_links' = invalid_links + 1
                   /\ output' = Append(output,
                                   InvalidLine(library[ci].id, passage.short_id))
              ELSE UNCHANGED <<invalid_links, output>>
    /\ pi' = pi + 1
    /\ UNCHANGED <<library, vpc, ci, fsVars, normVars>>

\* Line 132: a passage without external link.
SkipPassageNoLink ==
    /\ vpc = "loop" /\ ci <= Len(library)
    /\ library[ci].generator_config.kind = "Transcription"
    /\ pi <= Len(library[ci].generator_config.inlined_passages)
    /\ library[ci].generator_config.inlined_passages[pi].external_link = "None"
    /\ pi' = pi + 1
    /\ UNCHANGED <<library, vpc, ci, invalid_links, output, checks, fsVars, normVars>>

\* Line 125: the passages of the course are exhausted.
NextCourse ==
    /\ vpc = "loop" /\ ci <= Len(library)
    /\ library[ci].generator_config.kind = "Transcription"
    /\ pi > Len(library[ci].generator_config.inlined_passages)
    /\ ci' = ci + 1 /\ pi' = 1
    /\ UNCHANGED <<library, vpc, invalid_links, output, checks, fsVars, normVars>>

\* Lines 152-155: after the loop over the courses.
Finish ==
    /\ vpc = "loop" /\ ci > Len(library)
    /\ output' = output \o Summary(invalid_links)
    /\ vpc' = "done"
    /\ UNCHANGED <<library, ci, pi, invalid_links, checks, fsVars, normVars>>

LinkNext ==
    \/ LoadLibrary
    \/ LoadLibraryFails
    \/ SkipNoConfig
    \/ SkipOtherGenerator
    \/ \E response \in Responses : CheckPassage(response)
    \/ SkipPassageNoLink
    \/ NextCourse
    \/ Finish

SpecLinks == LinkInit /\ [][LinkNext]_vars

\* ================================================================ claims
IdA == <<"a">>
IdAB == <<"a", ":", ":", "b">>

IsCall == calls' = calls + 1

\* C1: once create_course(id) has returned Ok, every later call with the same
\* raw identifier (courses root present, nothing deleted) fails with
\* CourseAlreadyExists.
C1_RepeatFailsAlreadyExists ==
    [][(IsCall /\ CoursesRoot \in dirs /\ lastId' \in succeeded)
        => result' = "CourseAlreadyExists"]_vars

C1_Witness ==
    /\ result = "CourseAlreadyExists"
    /\ lastId \in succeeded

\* C2: a call that fails with MissingCoursesRoot or CourseAlreadyExists
\* leaves the directories and the files exactly as they were.
C2_EarlyFailureWritesNothing ==
    [][(IsCall /\ result' \in {"MissingCoursesRoot", "CourseAlreadyExists"})
        => (dirs' = dirs /\ files' = files)]_vars

C2_Witness ==
    /\ result = "CourseAlreadyExists"
    /\ DOMAIN files # {}

\* str::replace, the reference for C3: every occurrence of from, scanning
\* left to right, becomes to.
RECURSIVE ReplaceAll(_, _, _)
ReplaceAll(s, from, to) ==
    IF s = <<>> THEN <<>>
    ELSE IF StartsWith(s, from)
         THEN to \o ReplaceAll(SubSeq(s, Len(from) + 1, Len(s)), from, to)
         ELSE <<Head(s)>> \o ReplaceAll(Tail(s), from, to)

\* C3: for a raw identifier without the namespace prefix the course id is
\* the prefix followed by the raw string, and the path is the raw string
\* with every :: replaced by the path separator, joined to the courses root.
C3_UnprefixedNormalization ==
    (nPass = 1 /\ ~StartsWith(nRaw, NsPrefix))
        => /\ nId = NsPrefix \o nRaw
           /\ nPath = ReplaceAll(nRaw, NsSeparator, PathSeparator)
           /\ Directory(nRaw) =
                PathJoin(CoursesRoot, ReplaceAll(nRaw, NsSeparator, PathSeparator))

C3_Witness ==
    /\ nPass = 1
    /\ ~StartsWith(nRaw, NsPrefix)
    /\ Len(Split(nRaw, NsSeparator)) = 3
    /\ nPath = <<"a", "/", "a", "/", "a">>

\* The prefix removed once, as the specification of the normalizer words it.
StripPrefixOnce(s) == SubSeq(s, Len(NsPrefix) + 1, Len(s))

\* C4: for a raw identifier with the namespace prefix the course id is the
\* raw string and the path is the raw string without that one leading
\* prefix, split on :: and joined with the path separator.
C4_PrefixedStripsOnePrefix ==
    (nPass = 1 /\ StartsWith(nRaw, NsPrefix))
        => /\ nId = nRaw
           /\ nPath = Join(Split(StripPrefixOnce(nRaw), NsSeparator), PathSeparator)

\* C5: normalizing the course id obtained from a prefixed raw identifier
\* gives the same course id and the same path again.
C5_NormalizationIdempotent ==
    (nPass = 2 /\ StartsWith(nRaw, NsPrefix))
        => (nId = nPrev.id /\ nPath = nPrev.path)

C5_Witness ==
    /\ nPass = 2
    /\ StartsWith(nRaw, NsPrefix)
    /\ nPath = <<"a", "/", "a">>
    /\ nPrev.id = nRaw

AncestorsOf(dir) == {SubSeq(dir, 1, k) : k \in 1..Len(dir)}

\* The part of C8 that does not depend on how the file write fails: the
\* order of the checks and the effect of each failure before the write.
C8_StepsBeforeWrite ==
    LET dir == Directory(lastId')
    IN  /\ (result' = "MissingCoursesRoot") <=> (CoursesRoot \notin dirs)
        /\ (result' = "CourseAlreadyExists") <=>
                (CoursesRoot \in dirs /\ dir \in dirs)
        /\ dirs \subseteq dirs'
        /\ \A d \in DOMAIN files : d \in DOMAIN files' /\ files'[d] = files[d]
        /\ (result' = "ManifestBuildFailure")
                => (dirs' = dirs /\ files' = files)
        /\ (result' = "DirectoryCreateFailure")
                => (dir \notin dirs' /\ files' = files)
        /\ (result' = "SerializationFailure")
                => (AncestorsOf(dir) \subseteq dirs' /\ files' = files)
        /\ (result' = "FileWriteFailure") => AncestorsOf(dir) \subseteq dirs'
        /\ (result' = "Ok")
                => /\ AncestorsOf(dir) \subseteq dirs'
                   /\ dir \in DOMAIN files' /\ files'[dir].complete

\* C8 as claimed: the steps run in code order and stop at the first failure
\* without rollback; a failed manifest build changes nothing; a failed
\* serialization or file write leaves the target directory without any
\* course_manifest.json.
C8_NoManifestAfterWriteFailure ==
    [][IsCall =>
        /\ C8_StepsBeforeWrite
        /\ (result' \in {"SerializationFailure", "FileWriteFailure"})
                => Directory(lastId') \notin DOMAIN files']_vars

\* C8 amended: as above, but a failed file write leaves either no
\* course_manifest.json or an incomplete one, never a complete manifest.
C8_NoCompleteManifestAfterWriteFailure ==
    [][IsCall =>
        /\ C8_StepsBeforeWrite
        /\ (result' = "SerializationFailure")
                => Directory(lastId') \notin DOMAIN files'
        /\ (result' = "FileWriteFailure")
                => \/ Directory(lastId') \notin DOMAIN files'
                   \/ ~files'[Directory(lastId')].complete]_vars

C8_Witness ==
    /\ result = "FileWriteFailure"
    /\ Directory(lastId) \in dirs
    /\ Directory(lastId) \in DOMAIN files
    /\ ~files[Directory(lastId)].complete

\* C9: the existence check looks at the target directory only.  After a::b
\* was created, a is rejected although it has no manifest; a retry after a
\* failed serialization or file write is rejected; after a was created,
\* a::b passes the check and, when it succeeds, is nested inside a.
C9_ExistenceCheckIsDirectoryOnly ==
    [][(IsCall /\ CoursesRoot \in dirs) =>
        /\ (result' = "CourseAlreadyExists") <=> (Directory(lastId') \in dirs)
        /\ (IdAB \in succeeded /\ Directory(IdA) \notin DOMAIN files /\ lastId' = IdA)
                => /\ result' = "CourseAlreadyExists"
                   /\ Directory(IdA) \notin DOMAIN files'
        /\ (result \in {"SerializationFailure", "FileWriteFailure"}
                /\ lastId' = lastId)
                => result' = "CourseAlreadyExists"
        /\ (IdA \in succeeded /\ Directory(IdAB) \notin dirs /\ lastId' = IdAB)
                => /\ result' # "CourseAlreadyExists"
                   /\ (result' = "Ok")
                        => /\ files'[Directory(IdA)].manifest.id = CourseId(IdA)
                           /\ files'[Directory(IdAB)].manifest.id = CourseId(IdAB)
                           /\ Directory(IdA) \in AncestorsOf(Directory(IdAB))
                           /\ Directory(IdA) # Directory(IdAB)]_vars

C9_Witness ==
    /\ result = "CourseAlreadyExists"
    /\ lastId = IdA
    /\ IdAB \in succeeded
    /\ Directory(IdA) \in dirs
    /\ Directory(IdA) \notin DOMAIN files

C10_ManifestIdsDistinct ==
    /\ \A d1, d2 \in DOMAIN files :
            files[d1].manifest.id = files[d2].manifest.id => d1 = d2
    /\ \A d \in DOMAIN files : d = Directory(files[d].manifest.id)
    /\ (calls > 0) => Directory(lastId) = Directory(CourseId(lastId))

\* C10: no two course_manifest.json files carry the same course id; the
\* target directory is determined by the course id, a raw identifier and its
\* prefixed form have the same directory, and a call whose course id is
\* already in a written manifest fails with CourseAlreadyExists.
C10_UniqueCourseIds ==
    /\ []C10_ManifestIdsDistinct
    /\ [][(IsCall /\ CoursesRoot \in dirs
            /\ \E d \in DOMAIN files :
                    files[d].complete /\ files[d].manifest.id = CourseId(lastId'))
          => result' = "CourseAlreadyExists"]_vars

C10_Witness ==
    /\ result = "CourseAlreadyExists"
    /\ lastId \notin succeeded
    /\ \E d \in DOMAIN files :
            files[d].complete /\ files[d].manifest.id = CourseId(lastId)

\* The checks verify_links has to make: the passages with a link of the
\* courses whose generator is the Transcription variant.
ExpectedChecks ==
    UNION {{<<library[i].id, library[i].generator_config.inlined_passages[j].short_id>> :
                j \in {k \in DOMAIN library[i].generator_config.inlined_passages :
                        library[i].generator_config.inlined_passages[k].external_link
                            = "YouTube"}} :
            i \in {k \in DOMAIN library :
                    library[k].generator_config.kind = "Transcription"}}

ChecksOf(course_id, short_id) ==
    {k \in DOMAIN checks :
        checks[k].course = course_id /\ checks[k].asset = short_id}

InvalidLinesOf(course_id, short_id) ==
    {k \in DOMAIN output : output[k] = InvalidLine(course_id, short_id)}

InvalidLines == {k \in DOMAIN output : output[k].kind = "invalid"}
AllValidLines == {k \in DOMAIN output : output[k] = AllValidLine}
FailedChecks == {k \in DOMAIN checks : checks[k].response # "status200"}

\* C6: a run on a loaded library checks every linked Track passage of every
\* Transcription course exactly once and nothing else, prints exactly one
\* invalid-link line (course and short id) per failed check, a response
\* other than 200 and a transport failure both being failures; the run can
\* only fail while loading the library, before any check.
C6_EveryLinkCheckedOnce ==
    /\ (vpc = "failed") => (checks = <<>> /\ output = <<>>)
    /\ (vpc = "done") =>
        /\ \A c \in ExpectedChecks : Cardinality(ChecksOf(c[1], c[2])) = 1
        /\ \A k \in DOMAIN checks :
                <<checks[k].course, checks[k].asset>> \in ExpectedChecks
        /\ \A k \in DOMAIN checks :
                Cardinality(InvalidLinesOf(checks[k].course, checks[k].asset))
                    = IF k \in FailedChecks THEN 1 ELSE 0
        /\ Cardinality(InvalidLines) = Cardinality(FailedChecks)
        /\ invalid_links = Cardinality(FailedChecks)

C6_Witness ==
    /\ vpc = "done"
    /\ \E k \in DOMAIN library : library[k].generator_config.kind # "Transcription"
    /\ \E k \in FailedChecks : checks[k].response = "transport"
    /\ \E k \in FailedChecks : checks[k].response = "statusOther"
    /\ Cardinality(InvalidLines) = 2

\* C7: a finished run prints the all-valid line exactly when it printed no
\* invalid-link line; the line is printed once, last, and only after every
\* course was processed; a library without links gives just that line.
C7_AllValidIffNoInvalid ==
    /\ (AllValidLines # {}) => (vpc = "done" /\ ci > Len(library))
    /\ (vpc = "done") =>
        /\ Cardinality(AllValidLines) = IF InvalidLines = {} THEN 1 ELSE 0
        /\ AllValidLines \subseteq {Len(output)}
        /\ (ExpectedChecks = {}) => output = <<AllValidLine>>

C7_Witness ==
    /\ vpc = "done"
    /\ output = <<AllValidLine>>
    /\ Len(checks) = 2

====
